---- MODULE Spec2Model ----
(***************************************************************************)
(* Sample Invoice Extractor API (src/main.py).                             *)
(*                                                                         *)
(* Strings are sequences of one-character strings, so that prefix,         *)
(* substring, case folding, trimming and splitting are computed character  *)
(* by character as Python computes them.  The FieldRecord `data` is a      *)
(* function from the keys that have been set to their values.              *)
(***************************************************************************)
EXTENDS Integers, Sequences, FiniteSets, TLC

\* Longest line sequence of the field specifications.
MaxLines == 3
\* Longest line sequence of the block specifications.
MaxBlockLines == 4
\* Longest table-token sequence (rows, table breaks, page breaks) of a document.
MaxTokens == 3
\* Number of concurrently handled upload requests.
NReq == 2
\* Number of names the temporary-file name generator can produce.
NPaths == 2

VARIABLES
  lines,      \* extract_fields: the line sequence returned by extract_text_lines
  tokens,     \* the document's tables, as a sequence of rows and table/page breaks
  kwsel,      \* capture_block: which call site's (start, stop) keywords are used
  step,       \* "input" before the function under study is applied, "done" after
  result,     \* the value the function returned
  pc,         \* per request: position in extract_sample_invoice
  upload,     \* per request: index of the uploaded file in Uploads (0: none yet)
  tmp_path,   \* per request: the handler's tmp_path (0: not assigned)
  fs,         \* the temporary directory: path -> file
  seen,       \* per request: what each open of tmp_path by extract_fields read
  invoked,    \* per request: whether extract_fields has been called
  response    \* per request: the HTTP response sent

vars == <<lines, tokens, kwsel, step, result, pc, upload, tmp_path, fs, seen, invoked, response>>
pureVars == <<lines, tokens, kwsel, step, result>>
httpVars == <<pc, upload, tmp_path, fs, seen, invoked, response>>

-----------------------------------------------------------------------------
(* Python str operations *)

Empty == <<>>
NL == "\n"

LowerLetters == <<"a","b","c","d","e","f","g","h","i","j","k","l","m",
                  "n","o","p","q","r","s","t","u","v","w","x","y","z">>
UpperLetters == <<"A","B","C","D","E","F","G","H","I","J","K","L","M",
                  "N","O","P","Q","R","S","T","U","V","W","X","Y","Z">>
Digits == {"0","1","2","3","4","5","6","7","8","9"}
Whitespace == {" ", "\t", "\n"}

\* str.upper() / str.lower(), one character
UpperChar(c) ==
  IF \E i \in 1..Len(LowerLetters) : LowerLetters[i] = c
  THEN UpperLetters[CHOOSE i \in 1..Len(LowerLetters) : LowerLetters[i] = c]
  ELSE c

LowerChar(c) ==
  IF \E i \in 1..Len(UpperLetters) : UpperLetters[i] = c
  THEN LowerLetters[CHOOSE i \in 1..Len(UpperLetters) : UpperLetters[i] = c]
  ELSE c

Upper(s) == [i \in 1..Len(s) |-> UpperChar(s[i])]
Lower(s) == [i \in 1..Len(s) |-> LowerChar(s[i])]

\* str.startswith / str.endswith / `sub in s`
StartsWith(s, p) == Len(s) >= Len(p) /\ SubSeq(s, 1, Len(p)) = p
EndsWith(s, p) == Len(s) >= Len(p) /\ SubSeq(s, Len(s) - Len(p) + 1, Len(s)) = p
Contains(s, sub) ==
  \E i \in 0..(Len(s) - Len(sub)) : SubSeq(s, i + 1, i + Len(sub)) = sub

Min(S) == CHOOSE x \in S : \A y \in S : x <= y
Max(S) == CHOOSE x \in S : \A y \in S : y <= x
\* The k-th smallest element of a set of numbers.
Kth(S, k) == CHOOSE x \in S : Cardinality({y \in S : y <= x}) = k

\* str.strip()
Strip(s) ==
  LET keep == {i \in 1..Len(s) : s[i] \notin Whitespace}
  IN IF keep = {} THEN Empty ELSE SubSeq(s, Min(keep), Max(keep))

\* str.isdigit()
IsDigit(s) == s # Empty /\ \A i \in 1..Len(s) : s[i] \in Digits

\* str.split(): the maximal runs of non-whitespace characters, in order
Split(s) ==
  LET black(i) == s[i] \notin Whitespace
      starts == {i \in 1..Len(s) : black(i) /\ (i = 1 \/ ~black(i - 1))}
      ends == {i \in 1..Len(s) : black(i) /\ (i = Len(s) \/ ~black(i + 1))}
  IN [k \in 1..Cardinality(starts) |-> SubSeq(s, Kth(starts, k), Kth(ends, k))]

\* str.split(sep) for a one-character separator: every piece, empty ones included
SplitOn(s, sep) ==
  LET at == {i \in 1..Len(s) : s[i] = sep}
      n == Cardinality(at)
      cut(k) == IF k = 0 THEN 0 ELSE IF k = n + 1 THEN Len(s) + 1 ELSE Kth(at, k)
  IN [k \in 1..(n + 1) |-> SubSeq(s, cut(k - 1) + 1, cut(k) - 1)]

\* s.split(sep, 1)[-1]: what follows the first sep, the whole of s when it has none
SplitOnceLast(s, sep) ==
  LET at == {i \in 1..Len(s) : s[i] = sep}
  IN IF at = {} THEN s ELSE SubSeq(s, Min(at) + 1, Len(s))

\* s.replace(old, ""): every non-overlapping occurrence, left to right
RECURSIVE Remove(_, _)
Remove(s, old) ==
  LET occ == {i \in 1..(Len(s) - Len(old) + 1) : SubSeq(s, i, i + Len(old) - 1) = old}
  IN IF occ = {} THEN s
     ELSE SubSeq(s, 1, Min(occ) - 1) \o Remove(SubSeq(s, Min(occ) + Len(old), Len(s)), old)

\* sep.join(parts)
RECURSIVE Join(_, _)
Join(parts, sep) ==
  IF parts = <<>> THEN Empty
  ELSE IF Len(parts) = 1 THEN parts[1]
       ELSE parts[1] \o sep \o Join(Tail(parts), sep)

\* seq[-1]
Last(seq) == seq[Len(seq)]

\* re.search(rf"^{kw}", line, re.IGNORECASE), kw free of regex metacharacters
ReStartsWith(kw, line) == StartsWith(Lower(line), Lower(kw))

\* data[key] = value
Put(data, key, value) ==
  [k \in (DOMAIN data) \cup {key} |-> IF k = key THEN value ELSE data[k]]

SeqsUpTo(S, n) == UNION { [1..k -> S] : k \in 0..n }

-----------------------------------------------------------------------------
(* Keywords and literals of src/main.py *)

\* "Exporter"
KW_Exporter == <<"E", "x", "p", "o", "r", "t", "e", "r">>
\* "Invoice No"
KW_InvoiceNo == <<"I", "n", "v", "o", "i", "c", "e", " ", "N", "o">>
\* "Consignee"
KW_Consignee == <<"C", "o", "n", "s", "i", "g", "n", "e", "e">>
\* "Buyer"
KW_Buyer == <<"B", "u", "y", "e", "r">>
\* "Pre-carriage"
KW_PreCarriage == <<"P", "r", "e", "-", "c", "a", "r", "r", "i", "a", "g", "e">>
\* "Port of Loading"
KW_PortOfLoading == <<"P", "o", "r", "t", " ", "o", "f", " ", "L", "o", "a", "d", "i", "n", "g">>
\* "Port of Discharge"
KW_PortOfDischarge == <<"P", "o", "r", "t", " ", "o", "f", " ", "D", "i", "s", "c", "h", "a", "r", "g", "e">>
\* "Final Destination"
KW_FinalDestination == <<"F", "i", "n", "a", "l", " ", "D", "e", "s", "t", "i", "n", "a", "t", "i", "o", "n">>
\* "Net Weight"
KW_NetWeight == <<"N", "e", "t", " ", "W", "e", "i", "g", "h", "t">>
\* "Gross Weight"
KW_GrossWeight == <<"G", "r", "o", "s", "s", " ", "W", "e", "i", "g", "h", "t">>
\* "Amount in words"
KW_AmountInWords == <<"A", "m", "o", "u", "n", "t", " ", "i", "n", " ", "w", "o", "r", "d", "s">>
\* "Total"
KW_Total == <<"T", "o", "t", "a", "l">>
\* "Authorised Signature"
KW_AuthorisedSignature == <<"A", "u", "t", "h", "o", "r", "i", "s", "e", "d", " ", "S", "i", "g", "n", "a", "t", "u", "r", "e">>
\* "REF"
KW_REF == <<"R", "E", "F">>
\* "Yes"
STR_Yes == <<"Y", "e", "s">>
\* ".pdf"
STR_DotPdf == <<".", "p", "d", "f">>

(* Text lines, file names and table cells the inputs are drawn from *)

\* "Authorised Signature"
L_AuthSig == <<"A", "u", "t", "h", "o", "r", "i", "s", "e", "d", " ", "S", "i", "g", "n", "a", "t", "u", "r", "e">>
\* "For ACME Authorised Signature"
L_ForAuthSig == <<"F", "o", "r", " ", "A", "C", "M", "E", " ", "A", "u", "t", "h", "o", "r", "i", "s", "e", "d", " ", "S", "i", "g", "n", "a", "t", "u", "r", "e">>
\* "authorised signature"
L_authsigLower == <<"a", "u", "t", "h", "o", "r", "i", "s", "e", "d", " ", "s", "i", "g", "n", "a", "t", "u", "r", "e">>
\* "Authorised  Signature"
L_AuthSigTwoSpaces == <<"A", "u", "t", "h", "o", "r", "i", "s", "e", "d", " ", " ", "S", "i", "g", "n", "a", "t", "u", "r", "e">>
\* "Authorised"
L_Authorised == <<"A", "u", "t", "h", "o", "r", "i", "s", "e", "d">>
\* "Signature"
L_Signature == <<"S", "i", "g", "n", "a", "t", "u", "r", "e">>
\* "Total 5"
L_Total5 == <<"T", "o", "t", "a", "l", " ", "5">>
\* "Invoice No & Date"
L_InvoiceNoDate == <<"I", "n", "v", "o", "i", "c", "e", " ", "N", "o", " ", "&", " ", "D", "a", "t", "e">>
\* "Our Invoice No"
L_OurInvoiceNo == <<"O", "u", "r", " ", "I", "n", "v", "o", "i", "c", "e", " ", "N", "o">>
\* "INV-1 2024"
L_Inv1 == <<"I", "N", "V", "-", "1", " ", "2", "0", "2", "4">>
\* "Pre-carriage by"
L_PreCarriageBy == <<"P", "r", "e", "-", "c", "a", "r", "r", "i", "a", "g", "e", " ", "b", "y">>
\* "Port of Loading"
L_PortOfLoading == <<"P", "o", "r", "t", " ", "o", "f", " ", "L", "o", "a", "d", "i", "n", "g">>
\* "Mundra"
L_Mundra == <<"M", "u", "n", "d", "r", "a">>
\* "Port of Discharge Dubai"
L_DischargeDubai == <<"P", "o", "r", "t", " ", "o", "f", " ", "D", "i", "s", "c", "h", "a", "r", "g", "e", " ", "D", "u", "b", "a", "i">>
\* "Port of Discharge Final Destination Oman"
L_DischargeFinalOman == <<"P", "o", "r", "t", " ", "o", "f", " ", "D", "i", "s", "c", "h", "a", "r", "g", "e", " ", "F", "i", "n", "a", "l", " ", "D", "e", "s", "t", "i", "n", "a", "t", "i", "o", "n", " ", "O", "m", "a", "n">>
\* "Final Destination UAE"
L_FinalUAE == <<"F", "i", "n", "a", "l", " ", "D", "e", "s", "t", "i", "n", "a", "t", "i", "o", "n", " ", "U", "A", "E">>
\* "Total 45000"
L_Total45000 == <<"T", "o", "t", "a", "l", " ", "4", "5", "0", "0", "0">>
\* "Total Amount 99"
L_TotalAmount99 == <<"T", "o", "t", "a", "l", " ", "A", "m", "o", "u", "n", "t", " ", "9", "9">>
\* "Sub Total 7"
L_SubTotal7 == <<"S", "u", "b", " ", "T", "o", "t", "a", "l", " ", "7">>
\* "Net Weight 10kg"
L_Net10 == <<"N", "e", "t", " ", "W", "e", "i", "g", "h", "t", " ", "1", "0", "k", "g">>
\* "Net Weight 12kg"
L_Net12 == <<"N", "e", "t", " ", "W", "e", "i", "g", "h", "t", " ", "1", "2", "k", "g">>
\* "Gross Weight 15kg"
L_Gross15 == <<"G", "r", "o", "s", "s", " ", "W", "e", "i", "g", "h", "t", " ", "1", "5", "k", "g">>
\* "Net Weight Gross Weight 9"
L_NetGross9 == <<"N", "e", "t", " ", "W", "e", "i", "g", "h", "t", " ", "G", "r", "o", "s", "s", " ", "W", "e", "i", "g", "h", "t", " ", "9">>
\* "Exporter Ref: AB1"
L_ExporterRefAB1 == <<"E", "x", "p", "o", "r", "t", "e", "r", " ", "R", "e", "f", ":", " ", "A", "B", "1">>
\* "Pref X"
L_PrefX == <<"P", "r", "e", "f", " ", "X">>
\* "Amount in words: Five Only"
L_WordsFive == <<"A", "m", "o", "u", "n", "t", " ", "i", "n", " ", "w", "o", "r", "d", "s", ":", " ", "F", "i", "v", "e", " ", "O", "n", "l", "y">>
\* "Amount in words : Six: Only"
L_WordsSix == <<"A", "m", "o", "u", "n", "t", " ", "i", "n", " ", "w", "o", "r", "d", "s", " ", ":", " ", "S", "i", "x", ":", " ", "O", "n", "l", "y">>
\* "Amount in words Ten"
L_WordsTen == <<"A", "m", "o", "u", "n", "t", " ", "i", "n", " ", "w", "o", "r", "d", "s", " ", "T", "e", "n">>
\* "Exporter"
L_Exporter == <<"E", "x", "p", "o", "r", "t", "e", "r">>
\* "EXPORTER REF 9"
L_EXPORTERREF9 == <<"E", "X", "P", "O", "R", "T", "E", "R", " ", "R", "E", "F", " ", "9">>
\* "ACME Corp"
L_ACME == <<"A", "C", "M", "E", " ", "C", "o", "r", "p">>
\* "123 Main St"
L_MainSt == <<"1", "2", "3", " ", "M", "a", "i", "n", " ", "S", "t">>
\* "Invoice No"
L_InvoiceNo == <<"I", "n", "v", "o", "i", "c", "e", " ", "N", "o">>
\* "Consignee"
L_Consignee == <<"C", "o", "n", "s", "i", "g", "n", "e", "e">>
\* "The Exporter"
L_TheExporter == <<"T", "h", "e", " ", "E", "x", "p", "o", "r", "t", "e", "r">>
\* "exporter ref"
L_exporterref == <<"e", "x", "p", "o", "r", "t", "e", "r", " ", "r", "e", "f">>
\* "Invoice No 7"
L_InvoiceNo7 == <<"I", "n", "v", "o", "i", "c", "e", " ", "N", "o", " ", "7">>
\* "Buyer"
L_Buyer == <<"B", "u", "y", "e", "r">>
\* "Pre-carriage"
L_PreCarriage == <<"P", "r", "e", "-", "c", "a", "r", "r", "i", "a", "g", "e">>
\* "Port of Loading 2"
L_PortOfLoading2 == <<"P", "o", "r", "t", " ", "o", "f", " ", "L", "o", "a", "d", "i", "n", "g", " ", "2">>
\* "a.pdf"
FN_a_pdf == <<"a", ".", "p", "d", "f">>
\* "B.PDF"
FN_B_PDF == <<"B", ".", "P", "D", "F">>
\* "a.txt"
FN_a_txt == <<"a", ".", "t", "x", "t">>
\* "a.pdfx"
FN_a_pdfx == <<"a", ".", "p", "d", "f", "x">>
\* "pdf"
FN_pdf == <<"p", "d", "f">>
\* "7"
T_7 == <<"7">>
\* "8471"
T_8471 == <<"8", "4", "7", "1">>
\* "Laptop"
T_Laptop == <<"L", "a", "p", "t", "o", "p">>
\* "2"
T_2 == <<"2">>
\* "500"
T_500 == <<"5", "0", "0">>
\* "1000"
T_1000 == <<"1", "0", "0", "0">>
\* " 12 "
T_12pad == <<" ", "1", "2", " ">>
\* " x "
T_xpad == <<" ", "x", " ">>
\* "a"
T_a == <<"a">>
\* "b"
T_b == <<"b">>
\* "  "
T_blank == <<" ", " ">>
\* "1a"
T_1a == <<"1", "a">>
\* "3"
T_3 == <<"3">>
\* "extra"
T_extra == <<"e", "x", "t", "r", "a">>

-----------------------------------------------------------------------------
(* Documents: what the PDF library yields for a file *)

\* A table cell as page.extract_tables() gives it: a string, or None.
Cell(s) == [none |-> FALSE, text |-> s]
NoneCell == [none |-> TRUE, text |-> Empty]

\* Python truthiness of a cell: neither None nor "".
Truthy(cell) == ~cell.none /\ cell.text # Empty

RowToken(row) == [kind |-> "row", row |-> row]
TableBreak == [kind |-> "table", row |-> <<>>]
PageBreak == [kind |-> "page", row |-> <<>>]

\* Scenario D's row, a padded short row with a None cell, rows whose first cell is
\* non-numeric, None, empty or blank, an empty row, and a row of seven cells.
RowPool ==
  { <<Cell(T_7), Cell(T_8471), Cell(T_Laptop), Cell(T_2), Cell(T_500), Cell(T_1000)>>,
    <<Cell(T_12pad), NoneCell, Cell(T_xpad)>>,
    <<Cell(T_a), Cell(T_b)>>,
    <<NoneCell, Cell(T_b)>>,
    <<Cell(Empty), Cell(T_2)>>,
    <<Cell(T_blank)>>,
    <<Cell(T_1a)>>,
    <<>>,
    <<Cell(T_3), Cell(T_a), Cell(T_b), Cell(T_2), Cell(T_500), NoneCell, Cell(T_extra)>> }

TokenPool == { RowToken(r) : r \in RowPool } \cup {TableBreak, PageBreak}

\* The token sequence cut at its page breaks.
RECURSIVE CutAt(_, _, _, _)
CutAt(toks, kind, cur, acc) ==
  IF toks = <<>> THEN Append(acc, cur)
  ELSE IF Head(toks).kind = kind
       THEN CutAt(Tail(toks), kind, <<>>, Append(acc, cur))
       ELSE CutAt(Tail(toks), kind, Append(cur, Head(toks)), acc)

\* page.extract_tables(): a table break opens a table; rows before the first
\* break form a table of their own; a page without tokens has no table.
TablesOf(pageToks) ==
  LET pieces == CutAt(pageToks, "table", <<>>, <<>>)
      rowsOf(p) == [i \in 1..Len(p) |-> p[i].row]
      all == [i \in 1..Len(pieces) |-> rowsOf(pieces[i])]
  IN IF all[1] = <<>> THEN Tail(all) ELSE all

\* pdf.pages, each page as its list of tables.
Pages(toks) ==
  LET pieces == CutAt(toks, "page", <<>>, <<>>)
  IN [i \in 1..Len(pieces) |-> TablesOf(pieces[i])]

-----------------------------------------------------------------------------
(* extract_line_items *)

clean_cell_NoStrip(cell) == IF Truthy(cell) THEN cell.text ELSE Empty

clean_cell(cell) == IF Truthy(cell) THEN Strip(cell.text) ELSE Empty

\* The dictionary appended for a row classified as a line item.
LineItem(row) ==
  [ sr_no       |-> clean_cell(row[1]),
    hs_code     |-> IF Len(row) > 1 THEN clean_cell(row[2]) ELSE Empty,
    description |-> IF Len(row) > 2 THEN clean_cell(row[3]) ELSE Empty,
    qty         |-> IF Len(row) > 3 THEN clean_cell(row[4]) ELSE Empty,
    rate        |-> IF Len(row) > 4 THEN clean_cell(row[5]) ELSE Empty,
    amount      |-> IF Len(row) > 5 THEN clean_cell(row[6]) ELSE Empty ]

\* The body of `for row in table`.
RowStep(row, items) ==
  IF row = <<>> \/ ~Truthy(row[1]) THEN items
  ELSE IF Truthy(row[1]) /\ IsDigit(Strip(row[1].text))
       THEN Append(items, LineItem(row))
       ELSE items

RECURSIVE RowsLoop(_, _)
RowsLoop(table, items) ==
  IF table = <<>> THEN items
  ELSE RowsLoop(Tail(table), RowStep(Head(table), items))

RECURSIVE TablesLoop(_, _)
TablesLoop(tables, items) ==
  IF tables = <<>> THEN items
  ELSE TablesLoop(Tail(tables), RowsLoop(Head(tables), items))

RECURSIVE PagesLoop(_, _)
PagesLoop(pages, items) ==
  IF pages = <<>> THEN items
  ELSE PagesLoop(Tail(pages), TablesLoop(Head(pages), items))

extract_line_items(pages) == PagesLoop(pages, <<>>)

-----------------------------------------------------------------------------
(* capture_block *)

AnyStartsWith(kws, line) == \E kw \in kws : ReStartsWith(kw, line)

\* `for line in lines`: the list `block` when the loop ends or breaks.
RECURSIVE CaptureLoop(_, _, _, _, _)
CaptureLoop(ls, start_keywords, stop_keywords, capture, block) ==
  IF ls = <<>> THEN block
  ELSE IF AnyStartsWith(start_keywords, Head(ls))
       THEN CaptureLoop(Tail(ls), start_keywords, stop_keywords, TRUE, block)
       ELSE IF capture /\ AnyStartsWith(stop_keywords, Head(ls))
            THEN block
            ELSE CaptureLoop(Tail(ls), start_keywords, stop_keywords, capture,
                             IF capture THEN Append(block, Head(ls)) ELSE block)

capture_block(ls, start_keywords, stop_keywords) ==
  Strip(Join(CaptureLoop(ls, start_keywords, stop_keywords, FALSE, <<>>), <<NL>>))

\* The (start, stop) keywords of the three calls in extract_fields.
ExporterKeywords == [start |-> {KW_Exporter}, stop |-> {KW_InvoiceNo, KW_Consignee}]
ConsigneeKeywords == [start |-> {KW_Consignee}, stop |-> {KW_Buyer, KW_PreCarriage}]
BuyerKeywords == [start |-> {KW_Buyer}, stop |-> {KW_PreCarriage, KW_PortOfLoading}]
CallSites == <<ExporterKeywords, ConsigneeKeywords, BuyerKeywords>>

-----------------------------------------------------------------------------
(* extract_fields *)

\* lines[i + 1] if i + 1 < len(lines) else "", for the 1-based index i
NextLine(ls, i) == IF i + 1 <= Len(ls) THEN ls[i + 1] ELSE Empty

ExporterBlock_NewlineAddress(ls, data) ==
  LET exporter_block == capture_block(ls, ExporterKeywords.start, ExporterKeywords.stop)
  IN IF exporter_block # Empty
     THEN LET parts == SplitOn(exporter_block, NL)
          IN Put(Put(data, "exporter_name", parts[1]),
                 "exporter_address",
                 IF Len(parts) > 1 THEN Join(Tail(parts), <<NL>>) ELSE Empty)
     ELSE data

ExporterBlock(ls, data) ==
  LET exporter_block == capture_block(ls, ExporterKeywords.start, ExporterKeywords.stop)
  IN IF exporter_block # Empty
     THEN LET parts == SplitOn(exporter_block, NL)
          IN Put(Put(data, "exporter_name", parts[1]),
                 "exporter_address",
                 IF Len(parts) > 1 THEN Join(Tail(parts), <<" ">>) ELSE Empty)
     ELSE data

RECURSIVE InvoiceRefLoop(_, _, _)
InvoiceRefLoop(ls, i, data) ==
  IF i > Len(ls) THEN data
  ELSE LET l == ls[i]
           d1 == IF Contains(l, KW_InvoiceNo)
                 THEN Put(data, "invoice_no_date", NextLine(ls, i)) ELSE data
           d2 == IF Contains(Upper(l), KW_REF)
                 THEN Put(d1, "exporter_ref", Last(Split(l))) ELSE d1
       IN InvoiceRefLoop(ls, i + 1, d2)

ConsigneeBlock(ls, data) ==
  LET consignee_block == capture_block(ls, ConsigneeKeywords.start, ConsigneeKeywords.stop)
  IN IF consignee_block # Empty THEN Put(data, "consignee", consignee_block) ELSE data

BuyerBlock(ls, data) ==
  LET buyer_block == capture_block(ls, BuyerKeywords.start, BuyerKeywords.stop)
  IN IF buyer_block # Empty THEN Put(data, "buyer", buyer_block) ELSE data

\* The ports loop stopping at the first match of each key.
RECURSIVE PortsLoop_FirstWins(_, _, _)
PortsLoop_FirstWins(ls, i, data) ==
  IF i > Len(ls) THEN data
  ELSE LET l == ls[i]
           PutNew(d, k, v) == IF k \in DOMAIN d THEN d ELSE Put(d, k, v)
           d1 == IF StartsWith(l, KW_PreCarriage)
                 THEN PutNew(data, "pre_carriage", NextLine(ls, i)) ELSE data
           d2 == IF Contains(l, KW_PortOfLoading)
                 THEN PutNew(d1, "port_of_loading", NextLine(ls, i)) ELSE d1
           d3 == IF Contains(l, KW_PortOfDischarge)
                 THEN PutNew(d2, "port_of_discharge", Last(Split(l))) ELSE d2
           d4 == IF Contains(l, KW_FinalDestination)
                 THEN PutNew(d3, "final_destination", Last(Split(l))) ELSE d3
       IN PortsLoop_FirstWins(ls, i + 1, d4)

RECURSIVE PortsLoop(_, _, _)
PortsLoop(ls, i, data) ==
  IF i > Len(ls) THEN data
  ELSE LET l == ls[i]
           d1 == IF StartsWith(l, KW_PreCarriage)
                 THEN Put(data, "pre_carriage", NextLine(ls, i)) ELSE data
           d2 == IF Contains(l, KW_PortOfLoading)
                 THEN Put(d1, "port_of_loading", NextLine(ls, i)) ELSE d1
           d3 == IF Contains(l, KW_PortOfDischarge)
                 THEN Put(d2, "port_of_discharge", Last(Split(l))) ELSE d2
           d4 == IF Contains(l, KW_FinalDestination)
                 THEN Put(d3, "final_destination", Last(Split(l))) ELSE d3
       IN PortsLoop(ls, i + 1, d4)

\* The totals loop stopping at the first match of each key.
RECURSIVE TotalsLoop_FirstWins(_, _, _)
TotalsLoop_FirstWins(ls, i, data) ==
  IF i > Len(ls) THEN data
  ELSE LET l == ls[i]
           PutNew(d, k, v) == IF k \in DOMAIN d THEN d ELSE Put(d, k, v)
           d1 == IF Contains(l, KW_NetWeight)
                 THEN PutNew(data, "net_weight", Strip(Remove(l, KW_NetWeight))) ELSE data
           d2 == IF Contains(l, KW_GrossWeight)
                 THEN PutNew(d1, "gross_weight", Strip(Remove(l, KW_GrossWeight))) ELSE d1
           d3 == IF Contains(l, KW_AmountInWords)
                 THEN PutNew(d2, "amount_in_words", Strip(SplitOnceLast(l, ":"))) ELSE d2
           d4 == IF StartsWith(l, KW_Total)
                 THEN PutNew(d3, "total_amount", Last(Split(l))) ELSE d3
       IN TotalsLoop_FirstWins(ls, i + 1, d4)

RECURSIVE TotalsLoop(_, _, _)
TotalsLoop(ls, i, data) ==
  IF i > Len(ls) THEN data
  ELSE LET l == ls[i]
           d1 == IF Contains(l, KW_NetWeight)
                 THEN Put(data, "net_weight", Strip(Remove(l, KW_NetWeight))) ELSE data
           d2 == IF Contains(l, KW_GrossWeight)
                 THEN Put(d1, "gross_weight", Strip(Remove(l, KW_GrossWeight))) ELSE d1
           d3 == IF Contains(l, KW_AmountInWords)
                 THEN Put(d2, "amount_in_words", Strip(SplitOnceLast(l, ":"))) ELSE d2
           d4 == IF StartsWith(l, KW_Total)
                 THEN Put(d3, "total_amount", Last(Split(l))) ELSE d3
       IN TotalsLoop(ls, i + 1, d4)

AuthorisedSignature_IgnoreCase(ls) ==
  IF \E i \in 1..Len(ls) : Contains(Lower(ls[i]), Lower(KW_AuthorisedSignature))
  THEN STR_Yes ELSE Empty

AuthorisedSignature(ls) ==
  IF \E i \in 1..Len(ls) : Contains(ls[i], KW_AuthorisedSignature)
  THEN STR_Yes ELSE Empty

\* extract_fields, given what the two opens of the file yield: the text lines
\* and the pages' tables.
extract_fields(ls, pages) ==
  LET d0 == <<>>
      d1 == ExporterBlock(ls, d0)
      d2 == InvoiceRefLoop(ls, 1, d1)
      d3 == ConsigneeBlock(ls, d2)
      d4 == BuyerBlock(ls, d3)
      d5 == PortsLoop(ls, 1, d4)
      d6 == TotalsLoop(ls, 1, d5)
      d7 == Put(d6, "authorised_signature", AuthorisedSignature(ls))
  IN Put(d7, "line_items", extract_line_items(pages))

-----------------------------------------------------------------------------
(* The lines each specification draws its line sequences from *)

PoolSig ==
  { L_AuthSig, L_ForAuthSig, L_authsigLower, L_AuthSigTwoSpaces,
    L_Authorised, L_Signature, L_Total5 }

PoolFirst ==
  { L_InvoiceNoDate, L_OurInvoiceNo, L_Inv1, L_PreCarriageBy,
    L_PortOfLoading, L_Mundra, L_DischargeDubai, L_DischargeFinalOman,
    L_FinalUAE }

PoolLast ==
  { L_Total45000, L_TotalAmount99, L_SubTotal7, L_Net10, L_Net12,
    L_Gross15, L_NetGross9, L_ExporterRefAB1, L_PrefX, L_WordsFive,
    L_WordsSix, L_WordsTen }

PoolExporter ==
  { L_Exporter, L_EXPORTERREF9, L_ACME, L_MainSt, L_InvoiceNo, L_Consignee,
    L_TheExporter }

PoolCapture ==
  { L_Exporter, L_exporterref, L_ACME, L_InvoiceNo7, L_Consignee, L_Buyer,
    L_PreCarriage, L_PortOfLoading2 }

-----------------------------------------------------------------------------
(* The functions applied to bounded inputs *)

Reqs == 1..NReq
Paths == 1..NPaths

NoFile == [exists |-> FALSE, creator |-> 0, data |-> 0]
NoResponse == [status |-> 0, detail |-> "", fields |-> <<>>]

\* No request has arrived.
HttpIdle ==
  /\ pc = [r \in Reqs |-> "idle"]
  /\ upload = [r \in Reqs |-> 0]
  /\ tmp_path = [r \in Reqs |-> 0]
  /\ fs = [p \in Paths |-> NoFile]
  /\ seen = [r \in Reqs |-> <<>>]
  /\ invoked = [r \in Reqs |-> FALSE]
  /\ response = [r \in Reqs |-> NoResponse]

InitInputs(lineSeqs, tokenSeqs, sites) ==
  /\ lines \in lineSeqs
  /\ tokens \in tokenSeqs
  /\ kwsel \in sites
  /\ step = "input"
  /\ result = <<>>
  /\ HttpIdle

\* data = extract_fields(path), for a file with these lines and tables
ExtractFields ==
  /\ step = "input"
  /\ step' = "done"
  /\ result' = extract_fields(lines, Pages(tokens))
  /\ UNCHANGED <<lines, tokens, kwsel>>
  /\ UNCHANGED httpVars

\* capture_block(lines, start, stop), for the keywords of one call site
CaptureBlock ==
  /\ step = "input"
  /\ step' = "done"
  /\ result' = capture_block(lines, CallSites[kwsel].start, CallSites[kwsel].stop)
  /\ UNCHANGED <<lines, tokens, kwsel>>
  /\ UNCHANGED httpVars

OneTable == <<RowToken(<<Cell(T_7), Cell(T_8471), Cell(T_Laptop), Cell(T_2), Cell(T_500), Cell(T_1000)>>)>>

InitSig == InitInputs(SeqsUpTo(PoolSig, MaxLines), {<<>>, OneTable}, {1})
InitFirst == InitInputs(SeqsUpTo(PoolFirst, MaxLines), {<<>>}, {1})
InitLast == InitInputs(SeqsUpTo(PoolLast, MaxLines), {<<>>}, {1})
InitExporter == InitInputs(SeqsUpTo(PoolExporter, MaxBlockLines), {<<>>}, {1})
InitItems == InitInputs({<<>>, <<L_Total5>>}, SeqsUpTo(TokenPool, MaxTokens), {1})
InitCapture == InitInputs(SeqsUpTo(PoolCapture, MaxBlockLines), {<<>>}, 1..Len(CallSites))

NextFields == ExtractFields
NextCapture == CaptureBlock

SpecSig == InitSig /\ [][NextFields]_vars
SpecFirst == InitFirst /\ [][NextFields]_vars
SpecLast == InitLast /\ [][NextFields]_vars
SpecExporter == InitExporter /\ [][NextFields]_vars
SpecItems == InitItems /\ [][NextFields]_vars
SpecCapture == InitCapture /\ [][NextCapture]_vars

-----------------------------------------------------------------------------
(* POST /extract_sample_invoice *)

\* The uploads a request may carry: the file name and what the PDF library
\* makes of the bytes (ok = FALSE: it cannot open or read them).
Uploads ==
  << [filename |-> FN_a_pdf, ok |-> TRUE,
      lines |-> <<L_Exporter, L_ACME, L_MainSt, L_InvoiceNo>>, tokens |-> OneTable],
     [filename |-> FN_B_PDF, ok |-> FALSE, lines |-> <<>>, tokens |-> <<>>],
     [filename |-> FN_a_txt, ok |-> TRUE, lines |-> <<L_Total45000>>, tokens |-> <<>>],
     [filename |-> FN_a_pdfx, ok |-> TRUE, lines |-> <<L_Total45000>>, tokens |-> <<>>],
     [filename |-> FN_pdf, ok |-> FALSE, lines |-> <<>>, tokens |-> <<>>] >>

FileName(r) == Uploads[upload[r]].filename

IsPdfName_AnyDotPdf(filename) == Contains(Lower(filename), STR_DotPdf)

\* file.filename.lower().endswith(".pdf")
IsPdfName(filename) == EndsWith(Lower(filename), STR_DotPdf)

FreshNames_NotExclusive(files) == Paths

\* The names NamedTemporaryFile may return: it creates the file exclusively
\* (O_EXCL), so never under a name that exists.
FreshNames(files) == {p \in Paths : ~files[p].exists}

BadRequest == [status |-> 400, detail |-> "Only PDF files supported", fields |-> <<>>]
ServerError == [status |-> 500, detail |-> "Internal Server Error", fields |-> <<>>]
Success(data) == [status |-> 200, detail |-> "", fields |-> data]

\* pdfplumber.open(path) can read the file: it exists and holds a readable PDF.
Readable(files, p) == files[p].exists /\ files[p].data # 0 /\ Uploads[files[p].data].ok

\* A request arrives with its upload.
Receive(r) ==
  /\ pc[r] = "idle"
  /\ \E u \in 1..Len(Uploads) : upload' = [upload EXCEPT ![r] = u]
  /\ pc' = [pc EXCEPT ![r] = "check"]
  /\ UNCHANGED <<tmp_path, fs, seen, invoked, response>>
  /\ UNCHANGED pureVars

\* if not file.filename.lower().endswith(".pdf"): raise HTTPException(400, ...)
CheckName(r) ==
  /\ pc[r] = "check"
  /\ IF IsPdfName(FileName(r))
     THEN /\ pc' = [pc EXCEPT ![r] = "create"]
          /\ UNCHANGED response
     ELSE /\ pc' = [pc EXCEPT ![r] = "done"]
          /\ response' = [response EXCEPT ![r] = BadRequest]
  /\ UNCHANGED <<upload, tmp_path, fs, seen, invoked>>
  /\ UNCHANGED pureVars

\* with tempfile.NamedTemporaryFile(delete=False, suffix=".pdf") as tmp:
\*     tmp_path = tmp.name
CreateTemp(r) ==
  /\ pc[r] = "create"
  /\ IF FreshNames(fs) = {}
     THEN /\ pc' = [pc EXCEPT ![r] = "done"]
          /\ response' = [response EXCEPT ![r] = ServerError]
          /\ UNCHANGED <<tmp_path, fs>>
     ELSE /\ \E p \in FreshNames(fs) :
               /\ fs' = [fs EXCEPT ![p] = [exists |-> TRUE, creator |-> r, data |-> 0]]
               /\ tmp_path' = [tmp_path EXCEPT ![r] = p]
          /\ pc' = [pc EXCEPT ![r] = "write"]
          /\ UNCHANGED response
  /\ UNCHANGED <<upload, seen, invoked>>
  /\ UNCHANGED pureVars

\* tmp.write(await file.read()) succeeds and the with block closes the file.
WriteUpload(r) ==
  /\ pc[r] = "write"
  /\ fs' = IF fs[tmp_path[r]].exists
           THEN [fs EXCEPT ![tmp_path[r]].data = upload[r]]
           ELSE fs
  /\ pc' = [pc EXCEPT ![r] = "extract"]
  /\ UNCHANGED <<upload, tmp_path, seen, invoked, response>>
  /\ UNCHANGED pureVars

\* file.read() or tmp.write() raises (an I/O error, the request cancelled at
\* the await): the with block closes the file, which delete=False keeps, and
\* the exception leaves the handler before the try statement is entered.
WriteFails(r) ==
  /\ pc[r] = "write"
  /\ pc' = [pc EXCEPT ![r] = "done"]
  /\ response' = [response EXCEPT ![r] = ServerError]
  /\ UNCHANGED <<upload, tmp_path, fs, seen, invoked>>
  /\ UNCHANGED pureVars

\* try: data = extract_fields(tmp_path), up to the end of extract_text_lines,
\* the first open of the file.
OpenText(r) ==
  /\ pc[r] = "extract"
  /\ invoked' = [invoked EXCEPT ![r] = TRUE]
  /\ IF Readable(fs, tmp_path[r])
     THEN /\ seen' = [seen EXCEPT ![r] = Append(@, fs[tmp_path[r]])]
          /\ pc' = [pc EXCEPT ![r] = "tables"]
          /\ UNCHANGED response
     ELSE /\ pc' = [pc EXCEPT ![r] = "finally"]
          /\ response' = [response EXCEPT ![r] = ServerError]
          /\ UNCHANGED seen
  /\ UNCHANGED <<upload, tmp_path, fs>>
  /\ UNCHANGED pureVars

\* The rest of extract_fields: the field rules, then extract_line_items, the
\* second open of the file; return JSONResponse(...) is evaluated.
OpenTables(r) ==
  /\ pc[r] = "tables"
  /\ IF Readable(fs, tmp_path[r])
     THEN /\ seen' = [seen EXCEPT ![r] = Append(@, fs[tmp_path[r]])]
          /\ response' = [response EXCEPT ![r] =
               Success(extract_fields(Uploads[seen[r][1].data].lines,
                                      Pages(Uploads[fs[tmp_path[r]].data].tokens)))]
     ELSE /\ response' = [response EXCEPT ![r] = ServerError]
          /\ UNCHANGED seen
  /\ pc' = [pc EXCEPT ![r] = "finally"]
  /\ UNCHANGED <<upload, tmp_path, fs, invoked>>
  /\ UNCHANGED pureVars

\* finally: os.unlink(tmp_path); the response, or the exception, leaves.
Unlink(r) ==
  /\ pc[r] = "finally"
  /\ IF fs[tmp_path[r]].exists
     THEN /\ fs' = [fs EXCEPT ![tmp_path[r]] = NoFile]
          /\ UNCHANGED response
     ELSE /\ response' = [response EXCEPT ![r] = ServerError]
          /\ UNCHANGED fs
  /\ pc' = [pc EXCEPT ![r] = "done"]
  /\ UNCHANGED <<upload, tmp_path, seen, invoked>>
  /\ UNCHANGED pureVars

Init ==
  /\ HttpIdle
  /\ lines = <<>>
  /\ tokens = <<>>
  /\ kwsel = 1
  /\ step = "input"
  /\ result = <<>>

Next ==
  \E r \in Reqs :
    \/ Receive(r)
    \/ CheckName(r)
    \/ CreateTemp(r)
    \/ WriteUpload(r)
    \/ WriteFails(r)
    \/ OpenText(r)
    \/ OpenTables(r)
    \/ Unlink(r)

Spec == Init /\ [][Next]_vars

-----------------------------------------------------------------------------
(* Properties of the handler (Spec) *)

\* The file a request created is still in the temporary directory.
LeftBehind(r) == \E p \in Paths : fs[p].exists /\ fs[p].creator = r

\* The name ends in ".pdf", letter case ignored.
EndsInDotPdf(name) ==
  /\ Len(name) >= 4
  /\ \A i \in 1..4 : LowerChar(name[Len(name) - 4 + i]) = STR_DotPdf[i]

\* C1: once an accepted request (file name ending in ".pdf") has finished, on
\* whatever path (success, extraction failure, a failure while reading or
\* writing the uploaded bytes), no temporary file it created still exists.
C1_TempFileDeletedOnEveryExit ==
  \A r \in Reqs :
    (pc[r] = "done" /\ EndsInDotPdf(FileName(r))) => ~LeftBehind(r)

\* What the handler does guarantee: a request that entered the try statement
\* (extract_fields was called) leaves no temporary file behind when it ends.
TempFileDeletedAfterTry ==
  \A r \in Reqs : (pc[r] = "done" /\ invoked[r]) => ~LeftBehind(r)

\* C2: a request whose file name does not end in ".pdf" (case-insensitively)
\* never creates a temporary file, never invokes extract_fields, and is
\* answered with HTTP 400 and detail "Only PDF files supported".
C2_NonPdfRejectedBeforeAnyFile ==
  \A r \in Reqs :
    (upload[r] # 0 /\ ~EndsInDotPdf(FileName(r))) =>
      /\ tmp_path[r] = 0
      /\ ~LeftBehind(r)
      /\ ~invoked[r]
      /\ pc[r] \in {"check", "done"}
      /\ pc[r] = "done" =>
           /\ response[r].status = 400
           /\ response[r].detail = "Only PDF files supported"

\* C2's case: "a.pdfx" has been rejected.
C2_Witness ==
  \E r \in Reqs :
    /\ pc[r] = "done"
    /\ upload[r] # 0
    /\ FileName(r) = FN_a_pdfx
    /\ response[r] = BadRequest

\* The request holds a temporary file: created, and not yet unlinked by it.
Holding(r) == pc[r] \in {"write", "extract", "tables", "finally"}
Extracting(r) == pc[r] \in {"extract", "tables", "finally"}

\* No two requests hold the same temporary path at the same time; what a
\* request's extraction has read is its own file with its own upload; and its
\* file exists, unchanged, from the start of its extraction to its unlink.
RequestLocal ==
  /\ \A r, s \in Reqs : (r # s /\ Holding(r) /\ Holding(s)) => tmp_path[r] # tmp_path[s]
  /\ \A r \in Reqs : \A i \in 1..Len(seen[r]) :
       seen[r][i].creator = r /\ seen[r][i].data = upload[r]
  /\ \A r \in Reqs : Holding(r) =>
       fs[tmp_path[r]].exists /\ fs[tmp_path[r]].creator = r
  /\ \A r \in Reqs : Extracting(r) => fs[tmp_path[r]].data = upload[r]

\* A step that deletes a file is the unlink of the request that created it,
\* taken after that request's extraction has finished.
DeletesOnlyOwn ==
  \A p \in Paths :
    (fs[p].exists /\ ~fs'[p].exists) =>
      \E r \in Reqs :
        /\ tmp_path[r] = p
        /\ fs[p].creator = r
        /\ pc[r] = "finally"
        /\ pc'[r] = "done"

\* C10: under any interleaving of the requests, every temporary file is
\* request-local: two requests never hold the same temporary path, an
\* extraction reads only its own request's file, which exists for the whole
\* extraction, and a request deletes only its own file and only after its
\* extraction has finished.
C10_TempFilesRequestLocal == [](RequestLocal) /\ [][DeletesOnlyOwn]_vars

\* C10's case: two requests are in the middle of their extractions at once.
C10_Witness ==
  \E r, s \in Reqs :
    /\ r # s
    /\ pc[r] = "tables"
    /\ pc[s] = "tables"
    /\ Len(seen[r]) = 1
    /\ Len(seen[s]) = 1

-----------------------------------------------------------------------------
(* Properties of extract_fields (SpecSig, SpecFirst, SpecLast, SpecExporter, SpecItems) *)

HasValue(key, v) == key \in DOMAIN result /\ result[key] = v
Absent(key) == key \notin DOMAIN result

IdxContaining(kw) == {i \in 1..Len(lines) : Contains(lines[i], kw)}
IdxStarting(kw) == {i \in 1..Len(lines) : StartsWith(lines[i], kw)}
IdxRef == {i \in 1..Len(lines) : Contains(Upper(lines[i]), KW_REF)}

\* The line after line i, the empty string when line i is the last line.
Following(i) == IF i < Len(lines) THEN lines[i + 1] ELSE Empty

\* What follows the last whitespace character of a (trimmed) line.
LastToken(l) ==
  LET ws == {j \in 1..Len(l) : l[j] \in Whitespace}
  IN IF ws = {} THEN l ELSE SubSeq(l, Max(ws) + 1, Len(l))

\* C3: authorised_signature is always set; it is "Yes" if and only if some
\* line contains the exact substring "Authorised Signature", and the empty
\* string otherwise.
C3_AuthorisedSignature ==
  step = "done" =>
    /\ "authorised_signature" \in DOMAIN result
    /\ result["authorised_signature"] \in {STR_Yes, Empty}
    /\ result["authorised_signature"] = STR_Yes <=>
         \E i \in 1..Len(lines) :
           \E j \in 1..(Len(lines[i]) - Len(KW_AuthorisedSignature) + 1) :
             SubSeq(lines[i], j, j + Len(KW_AuthorisedSignature) - 1) = KW_AuthorisedSignature

\* C3's case: the substring occurs inside a line, beside a line that has it
\* only in lower case.
C3_Witness ==
  /\ step = "done"
  /\ \E i, j \in 1..Len(lines) : lines[i] = L_ForAuthSig /\ lines[j] = L_authsigLower
  /\ result["authorised_signature"] = STR_Yes

\* The value of each first-match field of C7, taken from the line pick(S) of
\* the set S of its matching lines.
PortFieldsFrom(pick(_)) ==
  /\ LET S == IdxContaining(KW_InvoiceNo)
     IN S # {} => HasValue("invoice_no_date", Following(pick(S)))
  /\ LET S == IdxStarting(KW_PreCarriage)
     IN S # {} => HasValue("pre_carriage", Following(pick(S)))
  /\ LET S == IdxContaining(KW_PortOfLoading)
     IN S # {} => HasValue("port_of_loading", Following(pick(S)))
  /\ LET S == IdxContaining(KW_PortOfDischarge)
     IN S # {} => HasValue("port_of_discharge", LastToken(lines[pick(S)]))
  /\ LET S == IdxContaining(KW_FinalDestination)
     IN S # {} => HasValue("final_destination", LastToken(lines[pick(S)]))

\* C7, as claimed: invoice_no_date, pre_carriage, port_of_loading,
\* port_of_discharge and final_destination are taken from the FIRST matching
\* line in document order.
C7_FirstMatchWins == step = "done" => PortFieldsFrom(Min)

\* C7, amended: invoice_no_date, pre_carriage, port_of_loading,
\* port_of_discharge and final_destination are taken from the LAST matching
\* line in document order.
C7_LastMatchWins == step = "done" => PortFieldsFrom(Max)

\* C7's case: two lines containing "Port of Discharge" end in different tokens.
C7_Witness ==
  /\ step = "done"
  /\ LET S == IdxContaining(KW_PortOfDischarge)
     IN /\ Cardinality(S) >= 2
        /\ LastToken(lines[Min(S)]) # LastToken(lines[Max(S)])
        /\ HasValue("port_of_discharge", LastToken(lines[Max(S)]))

\* The text after the first colon of l; `none` when l has no colon.
AfterFirstColon(l, none) ==
  LET at == {j \in 1..Len(l) : l[j] = ":"}
  IN IF at = {} THEN none ELSE SubSeq(l, Min(at) + 1, Len(l))

\* The last-match fields of C8, amount_in_words being words(l) of its line l.
TotalsFieldsFromLast(words(_)) ==
  /\ LET S == IdxStarting(KW_Total)
     IN IF S = {} THEN Absent("total_amount")
        ELSE HasValue("total_amount", LastToken(lines[Max(S)]))
  /\ LET S == IdxContaining(KW_NetWeight)
     IN IF S = {} THEN Absent("net_weight")
        ELSE HasValue("net_weight", Strip(Remove(lines[Max(S)], KW_NetWeight)))
  /\ LET S == IdxContaining(KW_GrossWeight)
     IN IF S = {} THEN Absent("gross_weight")
        ELSE HasValue("gross_weight", Strip(Remove(lines[Max(S)], KW_GrossWeight)))
  /\ LET S == IdxRef
     IN IF S = {} THEN Absent("exporter_ref")
        ELSE HasValue("exporter_ref", LastToken(lines[Max(S)]))
  /\ LET S == IdxContaining(KW_AmountInWords)
     IN IF S = {} THEN Absent("amount_in_words")
        ELSE HasValue("amount_in_words", Strip(words(lines[Max(S)])))

TextAfterColon(l) == AfterFirstColon(l, Empty)
TextAfterColonOrLine(l) == AfterFirstColon(l, l)

\* C8, as claimed: total_amount, net_weight, gross_weight, exporter_ref and
\* amount_in_words come from the last matching line, amount_in_words being the
\* trimmed text after that line's first colon; a key is absent when no line
\* matches.
C8_AmountInWordsAfterColon == step = "done" => TotalsFieldsFromLast(TextAfterColon)

\* C8, amended: as claimed, except that amount_in_words is the whole line,
\* trimmed, when the last matching line contains no colon.
C8_LastMatchWins == step = "done" => TotalsFieldsFromLast(TextAfterColonOrLine)

\* C8's case: Scenario C's two "Net Weight" lines, the second one winning,
\* and an "Amount in words" line without a colon.
C8_Witness ==
  /\ step = "done"
  /\ \E i, j \in 1..Len(lines) : i < j /\ lines[i] = L_Net10 /\ lines[j] = L_Net12
  /\ HasValue("net_weight", <<"1", "2", "k", "g">>)
  /\ HasValue("amount_in_words", L_WordsTen)

\* The lines capture_block keeps for the exporter block: those after the
\* first line beginning "Exporter" and before the next line beginning
\* "Invoice No" or "Consignee" (prefixes compared case-insensitively), lines
\* beginning "Exporter" left out.
ExporterCaptured ==
  LET starts == {i \in 1..Len(lines) : AnyStartsWith({KW_Exporter}, lines[i])}
      s0 == Min(starts)
      stops == {j \in 1..Len(lines) :
                  j > s0 /\ AnyStartsWith({KW_InvoiceNo, KW_Consignee}, lines[j])}
      end == IF stops = {} THEN Len(lines) + 1 ELSE Min(stops)
      kept == {j \in 1..Len(lines) : s0 < j /\ j < end /\ j \notin starts}
  IN IF starts = {} THEN <<>>
     ELSE [k \in 1..Cardinality(kept) |-> lines[Kth(kept, k)]]

ScenarioA == <<L_Exporter, L_ACME, L_MainSt, L_InvoiceNo>>

RowsInOrder ==
  LET rs == SelectSeq(tokens, LAMBDA t : t.kind = "row")
  IN [i \in 1..Len(rs) |-> rs[i].row]

\* The row's first cell, trimmed, consists solely of digits.
IsItemRow(row) ==
  /\ row # <<>>
  /\ ~row[1].none
  /\ LET c == Strip(row[1].text)
     IN c # Empty /\ \A i \in 1..Len(c) : c[i] \in Digits

\* The trimmed cell at position i (from 0), empty when absent or out of range.
CellAt(row, i) ==
  IF i + 1 <= Len(row) /\ ~row[i + 1].none THEN Strip(row[i + 1].text) ELSE Empty

ExpectedItem(row) ==
  [ sr_no |-> CellAt(row, 0), hs_code |-> CellAt(row, 1), description |-> CellAt(row, 2),
    qty |-> CellAt(row, 3), rate |-> CellAt(row, 4), amount |-> CellAt(row, 5) ]

\* C4: line_items is always present and holds, in page/table/row order and
\* with duplicates kept, exactly one item per row whose first cell, trimmed,
\* is all digits; its six fields are the trimmed cells at positions 0..5,
\* empty for an absent cell or a position beyond the row.
C4_LineItems ==
  step = "done" =>
    /\ "line_items" \in DOMAIN result
    /\ LET rows == SelectSeq(RowsInOrder, IsItemRow)
       IN result["line_items"] = [i \in 1..Len(rows) |-> ExpectedItem(rows[i])]

\* C4's case: two items from two pages, the first from a padded short row
\* with a None cell.
C4_Witness ==
  /\ step = "done"
  /\ Len(tokens) = 3
  /\ tokens[2] = PageBreak
  /\ Len(result["line_items"]) = 2
  /\ result["line_items"][1].sr_no = <<"1", "2">>
  /\ result["line_items"][1].hs_code = Empty
  /\ result["line_items"][2].sr_no = T_7

-----------------------------------------------------------------------------
(* Properties of capture_block (SpecCapture) *)

StartLines == {i \in 1..Len(lines) : AnyStartsWith(CallSites[kwsel].start, lines[i])}
FirstStart == Min(StartLines)
StopLines ==
  {j \in 1..Len(lines) : j > FirstStart /\ AnyStartsWith(CallSites[kwsel].stop, lines[j])}
\* The last line of the span: the one before the next stop line, or the final line.
SpanEnd == IF StopLines = {} THEN Len(lines) ELSE Min(StopLines) - 1

\* C5: once a start line has been seen, every later line is appended unless
\* it begins with a stop keyword; the first stop line ends the capture: the
\* result is the newline-join of exactly the lines strictly between the first
\* start line and the next stop line.
C5_BlockIsWholeSpan ==
  (step = "done" /\ StartLines # {}) =>
    result = Join(SubSeq(lines, FirstStart + 1, SpanEnd), <<NL>>)

\* C6: when a start line is followed by no stop line, the block is every line
\* after the first start line up to and including the final line.
C6_BlockRunsToFinalLine ==
  (step = "done" /\ StartLines # {} /\ StopLines = {}) =>
    result = Join(SubSeq(lines, FirstStart + 1, Len(lines)), <<NL>>)

\* What capture_block returns: the span's lines that do not themselves begin
\* with a start keyword, newline-joined; empty when no line begins with one.
CaptureBlockSkipsStartLines ==
  step = "done" =>
    result = IF StartLines = {} THEN Empty
             ELSE LET kept == {j \in (FirstStart + 1)..SpanEnd : j \notin StartLines}
                  IN Join([k \in 1..Cardinality(kept) |-> lines[Kth(kept, k)]], <<NL>>)
====
